---------------------------- MODULE Spec2Model ----------------------------
(***************************************************************************)
(* Model of the timing-analysis tool: the report parser (src/src/parser.h, *)
(* src/src/parser.cpp), the critical-path analyzer (src/src/analyzer.h,    *)
(* src/src/analyzer.cpp) and the two ways main (src/src/main.cpp) drives   *)
(* them.                                                                   *)
(*                                                                         *)
(* A std::string is a sequence of one-character strings, so that find,     *)
(* the two regular expressions and stod are computed character by          *)
(* character.  A double is an integer number of tenths: every number of    *)
(* the reports below has at most one fractional digit, and the only        *)
(* arithmetic of the program (x > y, x > 0.5 * y, 0.0 + x) is exact on     *)
(* such values.  A shared_ptr<TimingNode> is an index into the sequence    *)
(* nodes of all TimingNode objects allocated so far, 0 being nullptr; a    *)
(* shared_ptr<TimingEdge> held by a TimingPathAnalysis is the index of the *)
(* edge in its path's edges, 0 being nullptr.                              *)
(***************************************************************************)
EXTENDS Integers, Sequences, FiniteSets, TLC

VARIABLES
    mode,           \* "file", "dir" (the two branches of main) or "test"
    pc,             \* position of the run: see the actions
    topK,           \* the topK handed to findCriticalPaths
    files,          \* directory mode: the reports not yet parsed
    lines,          \* parseFile: the lines read from the file
    lineIndex,      \* parseFile: the index (from 0) of the current line
    paths,          \* parseFile: the paths collected so far / returned
    nodes,          \* every TimingNode allocated so far, in allocation order
    nodeCache,      \* TimingParser::nodeCache: name -> index into nodes
    allPaths,       \* directory mode: the paths of the files parsed so far
    criticalPaths   \* the result of findCriticalPaths

vars == <<mode, pc, topK, files, lines, lineIndex, paths, nodes, nodeCache, allPaths,
          criticalPaths>>

---------------------------------------------------------------------------
(* Strings *)

npos == 0 - 1

Digits == {"0", "1", "2", "3", "4", "5", "6", "7", "8", "9"}

DigitVal(c) ==
    CASE c = "0" -> 0 [] c = "1" -> 1 [] c = "2" -> 2 [] c = "3" -> 3
      [] c = "4" -> 4 [] c = "5" -> 5 [] c = "6" -> 6 [] c = "7" -> 7
      [] c = "8" -> 8 [] c = "9" -> 9

\* pat occurs in s at offset i (from 0)
OccursAt(s, pat, i) ==
    /\ i + Len(pat) <= Len(s)
    /\ \A k \in 1..Len(pat) : s[i + k] = pat[k]

\* the least offset at or after i at which pat occurs in s
RECURSIVE FindFrom(_, _, _)
FindFrom(s, pat, i) ==
    IF i + Len(pat) > Len(s) THEN npos
    ELSE IF OccursAt(s, pat, i) THEN i
    ELSE FindFrom(s, pat, i + 1)

\* std::string::find(pat)
Find(s, pat) == FindFrom(s, pat, 0)

Contains(s, pat) == Find(s, pat) # npos

Spaces == {" ", "\t"}

NumChars == Digits \cup {"."}

\* the first position (from 1) at or after i whose character is in set
\* (with in FALSE) or is not in set (with in TRUE): the end of the run of
\* characters in set, or not in set, that starts at i
RECURSIVE RunEnd(_, _, _, _)
RunEnd(s, i, set, in) ==
    IF i > Len(s) \/ (s[i] \in set) # in THEN i
    ELSE RunEnd(s, i + 1, set, in)

RECURSIVE DigitsVal(_)
DigitsVal(s) ==
    IF s = <<>> THEN 0
    ELSE 10 * DigitsVal(SubSeq(s, 1, Len(s) - 1)) + DigitVal(s[Len(s)])

\* std::stod on a string of digits and dots: the longest prefix
\* digits ['.' digits] holding a digit is converted, in tenths; with no
\* such prefix stod throws std::invalid_argument.
stod(s) ==
    LET e1 == RunEnd(s, 1, Digits, TRUE)
        dot == e1 <= Len(s) /\ s[e1] = "."
        e2 == IF dot THEN RunEnd(s, e1 + 1, Digits, TRUE) ELSE e1
        intDigits == SubSeq(s, 1, e1 - 1)
        fracDigits == IF dot THEN SubSeq(s, e1 + 1, e2 - 1) ELSE <<>>
    IN  IF intDigits = <<>> /\ fracDigits = <<>>
        THEN [throws |-> TRUE, value |-> 0]
        ELSE [throws |-> FALSE,
              value |-> 10 * DigitsVal(intDigits)
                        + (IF fracDigits = <<>> THEN 0
                           ELSE DigitVal(fracDigits[1]))]

---------------------------------------------------------------------------
(* The parser: src/src/parser.cpp *)

sPath == <<"P", "a", "t", "h">>
sPathSp == <<"P", "a", "t", "h", " ">>
sEndOf == <<"E", "n", "d", " ", "o", "f">>
sDot == <<".">>
sNET == <<"N", "E", "T">>
sFF == <<"F", "F">>
sFLOP == <<"F", "L", "O", "P">>
sPI == <<"P", "I">>
sINV == <<"I", "N", "V">>
sBUF == <<"B", "U", "F">>
sNAND == <<"N", "A", "N", "D">>
sNOR == <<"N", "O", "R">>
sPO == <<"P", "O">>

\* The items of the two regular expressions.  Each is matched greedily
\* and never given back: \s+ is followed by an item that starts with a
\* non-space, (\S+) and (\S+\.\d+) are followed by \s+ and so end where
\* their run of non-spaces ends, and ([\d\.]+) ends the expression.
Lit(text) == [kind |-> "lit", text |-> text, group |-> FALSE]
SpacesItem == [kind |-> "spaces", group |-> FALSE]
NonSpaces == [kind |-> "nonspaces", group |-> TRUE]
StageId == [kind |-> "stageid", group |-> TRUE]
Number == [kind |-> "number", group |-> TRUE]

\* Path\s+(\S+)\s+(\S+)\s+(\S+)\s+([\d\.]+)
headerPattern ==
    <<Lit(sPath), SpacesItem, NonSpaces, SpacesItem, NonSpaces, SpacesItem,
      NonSpaces, SpacesItem, Number>>

\* (\S+\.\d+)\s+(\S+)\s+(\S+)\s+([\d\.]+)
stagePattern ==
    <<StageId, SpacesItem, NonSpaces, SpacesItem, NonSpaces, SpacesItem,
      Number>>

\* the start of the run of digits that ends the span p .. e-1 of s
RECURSIVE TrailingDigits(_, _, _)
TrailingDigits(s, p, e) ==
    IF e <= p \/ s[e - 1] \notin Digits THEN e
    ELSE TrailingDigits(s, p, e - 1)

\* \S+\.\d+ on the run of non-spaces p .. e-1, whose last digits start at d
StageIdEnd(s, p, e, d) ==
    IF e > p /\ d < e /\ d >= p + 2 /\ s[d - 1] = "." THEN e ELSE 0

\* e, the end of a run that starts at i, if the run is not empty
NonEmpty(i, e) == IF e > i THEN e ELSE 0

\* the position after the match of item at position i of s, 0 if none
ItemEnd(s, i, item) ==
    CASE item.kind = "lit" ->
           IF /\ i + Len(item.text) - 1 <= Len(s)
              /\ SubSeq(s, i, i + Len(item.text) - 1) = item.text
           THEN i + Len(item.text) ELSE 0
      [] item.kind = "spaces" -> NonEmpty(i, RunEnd(s, i, Spaces, TRUE))
      [] item.kind = "nonspaces" -> NonEmpty(i, RunEnd(s, i, Spaces, FALSE))
      [] item.kind = "number" -> NonEmpty(i, RunEnd(s, i, NumChars, TRUE))
      [] item.kind = "stageid" ->
           StageIdEnd(s, i, RunEnd(s, i, Spaces, FALSE),
                      TrailingDigits(s, i, RunEnd(s, i, Spaces, FALSE)))

\* the match of items at position i of s, the groups before it given
RECURSIVE MatchItems(_, _, _, _)
MatchItems(s, i, items, groups) ==
    IF items = <<>> THEN [ok |-> TRUE, groups |-> groups]
    ELSE IF ItemEnd(s, i, Head(items)) = 0
    THEN [ok |-> FALSE, groups |-> <<>>]
    ELSE MatchItems(s, ItemEnd(s, i, Head(items)), Tail(items),
                    IF Head(items).group
                    THEN Append(groups,
                                SubSeq(s, i, ItemEnd(s, i, Head(items)) - 1))
                    ELSE groups)

\* std::regex_search: the match at the leftmost position that has one
RECURSIVE SearchFrom(_, _, _)
SearchFrom(s, pattern, p) ==
    IF p > Len(s) THEN [ok |-> FALSE, groups |-> <<>>]
    ELSE IF MatchItems(s, p, pattern, <<>>).ok
    THEN MatchItems(s, p, pattern, <<>>)
    ELSE SearchFrom(s, pattern, p + 1)

regex_search(s, pattern) == SearchFrom(s, pattern, 1)

\* parsePathHeader were it to take the startpoint before the endpoint
HeaderOfSwapped(matches, delay) ==
    IF ~matches.ok \/ delay.throws
    THEN [throws |-> TRUE, id |-> <<>>, startpoint |-> <<>>,
          endpoint |-> <<>>, delay |-> 0]
    ELSE [throws |-> FALSE, id |-> matches.groups[1],
          startpoint |-> matches.groups[2], endpoint |-> matches.groups[3],
          delay |-> delay.value]

\* the body of TimingParser::parsePathHeader, matches being the result of
\* the search and delay that of stod on its last group
HeaderOf(matches, delay) ==
    IF ~matches.ok \/ delay.throws
    THEN [throws |-> TRUE, id |-> <<>>, startpoint |-> <<>>,
          endpoint |-> <<>>, delay |-> 0]
    ELSE [throws |-> FALSE, id |-> matches.groups[1],
          startpoint |-> matches.groups[3], endpoint |-> matches.groups[2],
          delay |-> delay.value]

\* std::stod(matches[4].str()), when the search matched
StodGroup(matches) ==
    IF matches.ok THEN stod(matches.groups[4])
    ELSE [throws |-> TRUE, value |-> 0]

\* TimingParser::parsePathHeader
parsePathHeader(line) ==
    HeaderOf(regex_search(line, headerPattern),
             StodGroup(regex_search(line, headerPattern)))

\* the type given to a node created as the source of an edge
FromType(fromName) ==
    IF Contains(fromName, sNET) THEN "net"
    ELSE IF Contains(fromName, sFF) \/ Contains(fromName, sFLOP) THEN "flop"
    ELSE IF Contains(fromName, sPI) THEN "primary_input"
    ELSE "unknown"

\* the type of a new destination were FF and FLOP looked for before INV
ToTypeFlopFirst(toName) ==
    IF Contains(toName, sNET) THEN "net"
    ELSE IF Contains(toName, sFF) \/ Contains(toName, sFLOP) THEN "flop"
    ELSE IF Contains(toName, sINV) THEN "inverter"
    ELSE IF Contains(toName, sBUF) THEN "buffer"
    ELSE IF Contains(toName, sNAND) THEN "nand"
    ELSE IF Contains(toName, sNOR) THEN "nor"
    ELSE IF Contains(toName, sPO) THEN "primary_output"
    ELSE "unknown"

\* the type given to a node created as the destination of an edge
ToType(toName) ==
    IF Contains(toName, sNET) THEN "net"
    ELSE IF Contains(toName, sINV) THEN "inverter"
    ELSE IF Contains(toName, sBUF) THEN "buffer"
    ELSE IF Contains(toName, sNAND) THEN "nand"
    ELSE IF Contains(toName, sNOR) THEN "nor"
    ELSE IF Contains(toName, sFF) \/ Contains(toName, sFLOP) THEN "flop"
    ELSE IF Contains(toName, sPO) THEN "primary_output"
    ELSE "unknown"

\* parsePathStage were it never to find a node in the cache
CacheMiss(cache, name) == FALSE

\* nodeCache.find(name) != nodeCache.end()
CacheHit(cache, name) == name \in DOMAIN cache

\* nodeCache[name] = node
CachePut(cache, name, node) ==
    [n \in DOMAIN cache \cup {name} |-> IF n = name THEN node ELSE cache[n]]

\* the get-or-create were it to set the type of a node found in the cache
\* anew
ResolveRetyped(cache, heap, name, type, role) ==
    IF CacheHit(cache, name)
    THEN [node |-> cache[name], cache |-> cache,
          heap |-> [heap EXCEPT ![cache[name]].type = type]]
    ELSE [node |-> Len(heap) + 1,
          cache |-> CachePut(cache, name, Len(heap) + 1),
          heap |-> Append(heap, [name |-> name, type |-> type,
                                 role |-> role])]

\* the get-or-create of a node: the node, and the cache and the allocated
\* nodes after it.  role, "from" or "to", is kept with a new node to tell
\* which of the two blocks of parsePathStage made it; the program has no
\* such field
Resolve(cache, heap, name, type, role) ==
    IF CacheHit(cache, name)
    THEN [node |-> cache[name], cache |-> cache, heap |-> heap]
    ELSE [node |-> Len(heap) + 1,
          cache |-> CachePut(cache, name, Len(heap) + 1),
          heap |-> Append(heap, [name |-> name, type |-> type,
                                 role |-> role])]

\* parsePathStage were it to take the delay of a net for a cell delay
DelaySplitSwapped(fromType, delay) ==
    IF fromType = "net" THEN [netDelay |-> 0, cellDelay |-> delay]
    ELSE [netDelay |-> delay, cellDelay |-> 0]

\* the netDelay and cellDelay of a new edge
DelaySplit(fromType, delay) ==
    IF fromType = "net"
    THEN [netDelay |-> delay, cellDelay |-> 0]
    ELSE [netDelay |-> 0, cellDelay |-> delay]

\* the edge made by TimingParser::parsePathStage, f and t being the results
\* of resolving the source and the destination
NewEdge(f, t, delay, at) ==
    [from |-> f.node, to |-> t.node, delay |-> delay,
     netDelay |-> DelaySplit(t.heap[f.node].type, delay).netDelay,
     cellDelay |-> DelaySplit(t.heap[f.node].type, delay).cellDelay,
     atLine |-> at]

\* the source is resolved first, then the destination
ResolveTo(f, toName) ==
    Resolve(f.cache, f.heap, toName, ToType(toName), "to")

StageEdge(f, t, delay, at) ==
    [kind |-> "edge", cache |-> t.cache, heap |-> t.heap,
     edge |-> NewEdge(f, t, delay, at)]

\* the body of TimingParser::parsePathStage on the line at index at:
\* kind is "edge", "null" (nullptr is returned) or "throw" (stod threw)
StageOf(matches, delay, at, cache, heap) ==
    IF ~matches.ok
    THEN [kind |-> "null", cache |-> cache, heap |-> heap]
    ELSE IF delay.throws
    THEN [kind |-> "throw", cache |-> cache, heap |-> heap]
    ELSE StageEdge(
             Resolve(cache, heap, matches.groups[3],
                     FromType(matches.groups[3]), "from"),
             ResolveTo(Resolve(cache, heap, matches.groups[3],
                               FromType(matches.groups[3]), "from"),
                       matches.groups[2]),
             delay.value, at)

\* TimingParser::parsePathStage
parsePathStage(line, at, cache, heap) ==
    StageOf(regex_search(line, stagePattern),
            StodGroup(regex_search(line, stagePattern)), at, cache, heap)

\* parsePath's loop were it to stop also at a line that stagePattern is
\* not found in
EndsBlockAtNonStage(line) ==
    \/ line = <<>> \/ Find(line, sPathSp) = 0 \/ Contains(line, sEndOf)
    \/ ~regex_search(line, stagePattern).ok

\* parsePath's loop were it to stop only at an empty line and at "End of"
EndsBlockNoPath(line) == line = <<>> \/ Contains(line, sEndOf)

\* parsePath's loop were it not to stop at an empty line
EndsBlockNoEmpty(line) == Find(line, sPathSp) = 0 \/ Contains(line, sEndOf)

\* the test that ends the block of a path at a line
EndsBlock(line) ==
    line = <<>> \/ Find(line, sPathSp) = 0 \/ Contains(line, sEndOf)

\* the while loop of TimingParser::parsePath from lineIndex on: the edges,
\* the index the loop stops at, the cache and the allocated nodes
RECURSIVE StageLoop(_, _, _, _, _, _)
StageLoop(ls, id, i, edges, cache, heap) ==
    IF i >= Len(ls) \/ EndsBlock(ls[i + 1])
    THEN [edges |-> edges, lineIndex |-> i, cache |-> cache, heap |-> heap]
    ELSE IF Contains(ls[i + 1], id \o sDot)
    THEN LET r == parsePathStage(ls[i + 1], i, cache, heap)
         IN  StageLoop(ls, id, i + 1,
                       IF r.kind = "edge" THEN Append(edges, r.edge)
                       ELSE edges,
                       r.cache, r.heap)
    ELSE StageLoop(ls, id, i + 1, edges, cache, heap)

\* parsePath were it to return the index after the line that ends the block
parsePathPastEnd(ls, startLine, cache, heap) ==
    LET h == parsePathHeader(ls[startLine + 1])
        r == StageLoop(ls, h.id, startLine + 1, <<>>, cache, heap)
    IN  IF h.throws
        THEN [throws |-> TRUE, cache |-> cache, heap |-> heap]
        ELSE [throws |-> FALSE,
              path |-> [id |-> h.id, startpoint |-> h.startpoint,
                        endpoint |-> h.endpoint, totalDelay |-> h.delay,
                        edges |-> r.edges, atLine |-> startLine],
              nextLine |-> IF r.lineIndex < Len(ls) THEN r.lineIndex + 1
                           ELSE r.lineIndex,
              cache |-> r.cache, heap |-> r.heap]

\* TimingParser::parsePath
parsePath(ls, startLine, cache, heap) ==
    LET h == parsePathHeader(ls[startLine + 1])
        r == StageLoop(ls, h.id, startLine + 1, <<>>, cache, heap)
    IN  IF h.throws
        THEN [throws |-> TRUE, cache |-> cache, heap |-> heap]
        ELSE [throws |-> FALSE,
              path |-> [id |-> h.id, startpoint |-> h.startpoint,
                        endpoint |-> h.endpoint, totalDelay |-> h.delay,
                        edges |-> r.edges, atLine |-> startLine],
              nextLine |-> r.lineIndex,
              cache |-> r.cache, heap |-> r.heap]

---------------------------------------------------------------------------
(* The analyzer: src/src/parser.h, src/src/analyzer.h, src/src/analyzer.cpp *)

\* the for loop of TimingPath::getWorstStage from edge i on
RECURSIVE WorstLoop(_, _, _, _)
WorstLoop(edges, i, maxDelay, worstEdge) ==
    IF i > Len(edges) THEN [delay |-> maxDelay, edge |-> worstEdge]
    ELSE IF edges[i].delay > maxDelay
    THEN WorstLoop(edges, i + 1, edges[i].delay, i)
    ELSE WorstLoop(edges, i + 1, maxDelay, worstEdge)

\* TimingPath::getWorstStage
getWorstStage(path) ==
    IF path.edges = <<>> THEN [delay |-> 0, edge |-> 0]
    ELSE WorstLoop(path.edges, 1, 0, 0)

\* the constructor of TimingPathAnalysis, on a path that is not null
TimingPathAnalysis(path) ==
    LET w == getWorstStage(path)
    IN  [path |-> path,
         worstStageDelay |-> w.delay,
         worstStage |-> w.edge,
         optimizationSuggestion |->
             IF w.edge = 0
             THEN <<"Insufficient path data for optimization suggestions">>
             ELSE <<>>]

\* TimingAnalyzer::suggestFanoutOptimization
suggestFanoutOptimization(edge, heap) ==
    IF edge.from # 0 /\ edge.to # 0
    THEN <<"balance fan-out after ", heap[edge.from].name>>
    ELSE <<"balance fan-out in the critical path">>

\* suggestCellReplacement were it to look for BUF before INV
suggestCellReplacementBufFirst(edge, heap) ==
    IF edge.from # 0 /\ heap[edge.from].type # "net"
    THEN LET cellName == heap[edge.from].name
         IN  <<"replace ", cellName, " with ">> \o
             (IF Contains(cellName, sBUF) THEN <<cellName, "_X4">>
              ELSE IF Contains(cellName, sINV) THEN <<cellName, "_HF">>
              ELSE IF Contains(cellName, sNAND) \/ Contains(cellName, sNOR)
              THEN <<cellName, "_HS">>
              ELSE <<"a faster variant of ", cellName>>)
    ELSE <<"use faster cell library for critical path cells">>

\* TimingAnalyzer::suggestCellReplacement
suggestCellReplacement(edge, heap) ==
    IF edge.from # 0 /\ heap[edge.from].type # "net"
    THEN LET cellName == heap[edge.from].name
         IN  <<"replace ", cellName, " with ">> \o
             (IF Contains(cellName, sINV) THEN <<cellName, "_HF">>
              ELSE IF Contains(cellName, sBUF) THEN <<cellName, "_X4">>
              ELSE IF Contains(cellName, sNAND) \/ Contains(cellName, sNOR)
              THEN <<cellName, "_HS">>
              ELSE <<"a faster variant of ", cellName>>)
    ELSE <<"use faster cell library for critical path cells">>

\* TimingAnalyzer::suggestPipelineInsertion (" -> " stands for the arrow)
suggestPipelineInsertion(edge, heap) ==
    IF edge.from # 0 /\ edge.to # 0
    THEN <<"insert pipeline register between ", heap[edge.from].name,
           " -> ", heap[edge.to].name>>
    ELSE <<"insert pipeline register in the critical path">>

Insufficient == <<"Insufficient path data for optimization suggestions.">>

\* x >= 0.5 * y, on tenths
AtLeastHalf(x, y) == 2 * x >= y

\* x > y, on tenths
MoreThanWhole(x, y) == x > y

\* x > 0.5 * y, on tenths
MoreThanHalf(x, y) == 2 * x > y

\* the choice among the three suggestions in TimingAnalyzer::analyzePath
Suggest(worstEdge, worstStageDelay, heap) ==
    IF /\ worstEdge.netDelay > worstEdge.cellDelay
       /\ MoreThanHalf(worstEdge.netDelay, worstStageDelay)
    THEN suggestPipelineInsertion(worstEdge, heap)
    ELSE IF /\ worstEdge.cellDelay > worstEdge.netDelay
            /\ MoreThanHalf(worstEdge.cellDelay, worstStageDelay)
    THEN suggestCellReplacement(worstEdge, heap)
    ELSE suggestFanoutOptimization(worstEdge, heap)

\* analyzePath were it without its check of the nodes of the worst edge
analyzePathUnguarded(path, heap) ==
    LET analysis == TimingPathAnalysis(path)
        worstEdge == path.edges[analysis.worstStage]
    IN  IF analysis.worstStage = 0
        THEN [analysis EXCEPT !.optimizationSuggestion = Insufficient]
        ELSE [analysis EXCEPT !.optimizationSuggestion =
                  Suggest(worstEdge, analysis.worstStageDelay, heap)]

\* TimingAnalyzer::analyzePath
analyzePath(path, heap) ==
    LET analysis == TimingPathAnalysis(path)
        worstEdge == path.edges[analysis.worstStage]
    IN  IF analysis.worstStage = 0
        THEN [analysis EXCEPT !.optimizationSuggestion = Insufficient]
        ELSE IF worstEdge.from = 0 \/ worstEdge.to = 0
        THEN [analysis EXCEPT !.optimizationSuggestion = Insufficient]
        ELSE [analysis EXCEPT !.optimizationSuggestion =
                  Suggest(worstEdge, analysis.worstStageDelay, heap)]

\* the comparison were it to sort the smaller total delay first
SortsAscending(a, b) == a.totalDelay < b.totalDelay

\* the comparison handed to std::sort
SortsBefore(a, b) == a.totalDelay > b.totalDelay

\* std::sort does not say in which order it leaves elements neither of
\* which sorts before the other: every order of the elements in which no
\* element sorts before an earlier one is an outcome.  The orders of the
\* elements of pathPtrs at the indices in left, as sequences of indices.
RECURSIVE SortOrders(_, _)
SortOrders(pathPtrs, left) ==
    IF left = {} THEN {<<>>}
    ELSE LET first == {i \in left : \A j \in left :
                          ~SortsBefore(pathPtrs[j], pathPtrs[i])}
         IN  UNION {{<<i>> \o rest :
                        rest \in SortOrders(pathPtrs, left \ {i})} :
                    i \in first}

\* std::min(topK, static_cast<int>(pathPtrs.size()))
MinInt(a, b) == IF a < b THEN a ELSE b

\* TimingAnalyzer::findCriticalPaths, std::sort having left the paths in
\* the order given by order
findCriticalPaths(inPaths, k, order, heap) ==
    LET n == MinInt(k, Len(inPaths))
    IN  IF n <= 0 THEN <<>>
        ELSE [i \in 1..n |-> analyzePath(inPaths[order[i]], heap)]

---------------------------------------------------------------------------
(* Inputs *)

MaxLines == 3
MaxDirLines == 4
MaxFiles == 2
MaxTopK == 3
MaxPaths == 3
MaxEdges == 3
MaxDelay == 2

RECURSIVE Join(_, _)
Join(toks, sep) ==
    IF Len(toks) = 0 THEN <<>>
    ELSE IF Len(toks) = 1 THEN toks[1]
    ELSE toks[1] \o sep \o Join(Tail(toks), sep)

sp == <<" ">>
sp3 == <<" ", " ", " ">>
nP1 == <<"P", "1">>
nP2 == <<"P", "2">>
nFFQ == <<"F", "F", "_", "Q">>
nPI == <<"P", "I">>
nPO1 == <<"P", "O", "1">>
nNET1 == <<"N", "E", "T", "1">>
nINV1 == <<"I", "N", "V", "1">>
nBUF1 == <<"B", "U", "F", "1">>
nNAND1 == <<"N", "A", "N", "D", "1">>
nNOR1 == <<"N", "O", "R", "1">>
nCELL1 == <<"C", "E", "L", "L", "1">>
nBUFINV == <<"B", "U", "F", "_", "I", "N", "V">>
nFFINV == <<"F", "F", "_", "I", "N", "V">>
nNETFF == <<"N", "E", "T", "_", "F", "F">>

\* ""
lEmpty == <<>>
\* "Path P1 FF_Q PI 2.5"
lHdr1 == Join(<<sPath, nP1, nFFQ, nPI, <<"2", ".", "5">>>>, sp)
\* "Path P2 PO1 NET1 1.5"
lHdr2 == Join(<<sPath, nP2, nPO1, nNET1, <<"1", ".", "5">>>>, sp)
\* "Path   Endpoint   Startpoint   Delay"
lTitle == Join(<<sPath, <<"E", "n", "d", "p", "o", "i", "n", "t">>,
                 <<"S", "t", "a", "r", "t", "p", "o", "i", "n", "t">>,
                 <<"D", "e", "l", "a", "y">>>>, sp3)
\* "Path P1 FF_Q PI ."
lHdrDot == Join(<<sPath, nP1, nFFQ, nPI, sDot>>, sp)
\* "P1.1 NET1 PI 0.5"
lStg11 == Join(<<nP1 \o <<".", "1">>, nNET1, nPI, <<"0", ".", "5">>>>, sp)
\* "P1.2 INV1 NET1 1.5"
lStg12 == Join(<<nP1 \o <<".", "2">>, nINV1, nNET1, <<"1", ".", "5">>>>, sp)
\* "P1.3 FF_Q INV1 0"
lStg13 == Join(<<nP1 \o <<".", "3">>, nFFQ, nINV1, <<"0">>>>, sp)
\* "P1.x NET1"
lBad == Join(<<nP1 \o <<".", "x">>, nNET1>>, sp)
\* "P1.4 NET1 PI ."
lBadDot == Join(<<nP1 \o <<".", "4">>, nNET1, nPI, sDot>>, sp)
\* "End of report"
lEnd == sEndOf \o <<" ", "r", "e", "p", "o", "r", "t">>
\* "-----"
lDash == <<"-", "-", "-", "-", "-">>
\* "P1 FF_Q PI 2.5"
lRow1 == Join(<<nP1, nFFQ, nPI, <<"2", ".", "5">>>>, sp)

\* "P1.5 FF_INV NET_FF 0.5"
lTyp1 == Join(<<nP1 \o <<".", "5">>, nFFINV, nNETFF, <<"0", ".", "5">>>>, sp)
\* "P1.6 NET_FF FF_INV 0.5"
lTyp2 == Join(<<nP1 \o <<".", "6">>, nNETFF, nFFINV, <<"0", ".", "5">>>>, sp)

LinePool == {lEmpty, lHdr1, lHdr2, lHdrDot, lStg11, lStg12, lStg13, lBad,
             lBadDot, lEnd}

DirLinePool == {lHdr1, lStg11, lStg12}

SeqsUpTo(S, n) == UNION {[1..k -> S] : k \in 0..n}

\* the reports in the format createTempTimingReport of
\* tests/test_parser.cpp writes: the titles, the dashes, then rows
TestReports ==
    {<<lTitle, lDash>> \o rows :
        rows \in SeqsUpTo({lRow1, lStg11, lStg12}, MaxLines - 2)}

\* reports of one path whose nodes have names that more than one of the
\* patterns of parsePathStage is in
TypeReports ==
    {<<lHdr1>> \o rows : rows \in SeqsUpTo({lTyp1, lTyp2}, MaxLines - 1)}

\* the reports given with --file
Reports == SeqsUpTo(LinePool, MaxLines) \cup TestReports \cup TypeReports

\* the ways to cut ls into at most k files
RECURSIVE Splits(_, _)
Splits(ls, k) ==
    IF k = 0 THEN (IF ls = <<>> THEN {<<>>} ELSE {})
    ELSE (IF ls = <<>> THEN {<<>>} ELSE {}) \cup
         UNION {{<<SubSeq(ls, 1, c)>> \o rest :
                    rest \in Splits(SubSeq(ls, c + 1, Len(ls)), k - 1)} :
                c \in 0..Len(ls)}

\* the .rpt files of a directory given with --dir
Directories ==
    UNION {Splits(ls, MaxFiles) : ls \in SeqsUpTo(DirLinePool, MaxDirLines)}

\* the nodes made by addTestEdge: type "net" for a name with NET in it
TestNode(name) ==
    [name |-> name, type |-> IF Contains(name, sNET) THEN "net" ELSE "cell",
     role |-> "test"]

TestHeap == <<TestNode(nNET1), TestNode(nCELL1), TestNode(nINV1),
              TestNode(nBUF1), TestNode(nNAND1), TestNode(nNOR1),
              TestNode(nBUFINV)>>

\* addTestEdge, plus an edge left without one of its nodes
TestEdge(from, to, delay, netDelay, cellDelay) ==
    [from |-> from, to |-> to, delay |-> delay, netDelay |-> netDelay,
     cellDelay |-> cellDelay, atLine |-> 0]

\* createTestPath
TestPath(id, delay, edges) ==
    [id |-> id, startpoint |-> <<"S">>, endpoint |-> <<"E">>,
     totalDelay |-> delay, edges |-> edges, atLine |-> 0]

DigitChars == <<"1", "2", "3", "4", "5", "6", "7", "8", "9">>

\* lists of paths P1, P2, .. that differ in their total delays
RankInputs ==
    {[i \in 1..Len(ds) |-> TestPath(<<"P", DigitChars[i]>>, ds[i], <<>>)] :
        ds \in SeqsUpTo(0..MaxDelay, MaxPaths)}

\* one path whose edges differ in their delays
ScanInputs ==
    {<<TestPath(nP1, 0,
                [i \in 1..Len(ds) |-> TestEdge(2, 1, ds[i], 0, ds[i])])>> :
        ds \in SeqsUpTo(0..MaxDelay, MaxEdges)}

\* one path of one edge, of any delays and nodes
ClassifyInputs ==
    {<<TestPath(nP1, 0, <<TestEdge(f, t, d, n, c)>>)>> :
        f \in 0..Len(TestHeap), t \in 0..2,
        d \in 0..MaxDelay, n \in 0..MaxDelay, c \in 0..MaxDelay}

TestInputs == RankInputs \cup ScanInputs \cup ClassifyInputs

EmptyCache == [n \in {} |-> 0]

---------------------------------------------------------------------------
(* The runs: main in src/src/main.cpp, the tests of tests/test_analyzer.cpp *)

Init ==
    /\ mode \in {"file", "dir", "test"}
    /\ topK = 10
    /\ lines = <<>>
    /\ lineIndex = 0
    /\ allPaths = <<>>
    /\ criticalPaths = <<>>
    /\ nodeCache = EmptyCache
    /\ CASE mode = "file" ->
              /\ pc = "start"
              /\ files \in {<<r>> : r \in Reports}
              /\ paths = <<>>
              /\ nodes = <<>>
         [] mode = "dir" ->
              /\ pc = "start"
              /\ files \in Directories
              /\ paths = <<>>
              /\ nodes = <<>>
         [] mode = "test" ->
              /\ pc = "parsed"
              /\ files = <<>>
              /\ paths \in TestInputs
              /\ nodes = TestHeap

\* parseFile, up to its loop: the file is read
OpenFile ==
    /\ pc = "start" /\ files # <<>>
    /\ lines' = Head(files)
    /\ files' = Tail(files)
    /\ lineIndex' = 0
    /\ paths' = <<>>
    /\ pc' = "scan"
    /\ UNCHANGED <<mode, topK, nodes, nodeCache, allPaths, criticalPaths>>

\* parseFile on a file that cannot be opened: the error ends main
OpenFails ==
    /\ pc = "start" /\ files # <<>>
    /\ pc' = "error"
    /\ UNCHANGED <<mode, topK, files, lines, lineIndex, paths, nodes,
                   nodeCache, allPaths, criticalPaths>>

AtHeader ==
    /\ pc = "scan" /\ lineIndex < Len(lines)
    /\ Find(lines[lineIndex + 1], sPathSp) = 0

\* an iteration of parseFile's loop at a "Path " line that parsePath parses
ScanPath ==
    /\ AtHeader
    /\ LET r == parsePath(lines, lineIndex, nodeCache, nodes)
       IN  /\ ~r.throws
           /\ paths' = Append(paths, r.path)
           /\ lineIndex' = r.nextLine
           /\ nodeCache' = r.cache
           /\ nodes' = r.heap
    /\ UNCHANGED <<mode, pc, topK, files, lines, allPaths, criticalPaths>>

\* the iteration were the exception of parsePath not caught in parseFile
ScanPathEscapes ==
    /\ AtHeader
    /\ parsePath(lines, lineIndex, nodeCache, nodes).throws
    /\ pc' = "error"
    /\ UNCHANGED <<mode, topK, files, lines, lineIndex, paths, nodes,
                   nodeCache, allPaths, criticalPaths>>

\* an iteration at a "Path " line on which parsePath throws
ScanPathFails ==
    /\ AtHeader
    /\ parsePath(lines, lineIndex, nodeCache, nodes).throws
    /\ lineIndex' = lineIndex + 1
    /\ UNCHANGED <<mode, pc, topK, files, lines, paths, nodes, nodeCache,
                   allPaths, criticalPaths>>

\* an iteration at any other line
ScanOther ==
    /\ pc = "scan" /\ lineIndex < Len(lines)
    /\ Find(lines[lineIndex + 1], sPathSp) # 0
    /\ lineIndex' = lineIndex + 1
    /\ UNCHANGED <<mode, pc, topK, files, lines, paths, nodes, nodeCache,
                   allPaths, criticalPaths>>

\* parseFile returns to main, which in directory mode appends the paths
ParseReturns ==
    /\ pc = "scan" /\ lineIndex >= Len(lines)
    /\ IF mode = "dir"
       THEN allPaths' = allPaths \o paths /\ pc' = "start"
       ELSE allPaths' = allPaths /\ pc' = "parsed"
    /\ UNCHANGED <<mode, topK, files, lines, lineIndex, paths, nodes,
                   nodeCache, criticalPaths>>

\* directory mode: no file is left
DirectoryDone ==
    /\ mode = "dir" /\ pc = "start" /\ files = <<>>
    /\ pc' = "parsed"
    /\ UNCHANGED <<mode, topK, files, lines, lineIndex, paths, nodes,
                   nodeCache, allPaths, criticalPaths>>

\* the paths handed to findCriticalPaths
Collected == IF mode = "dir" THEN allPaths ELSE paths

TopKs == (0 - 1)..MaxTopK

\* analyzer.findCriticalPaths(paths, topK)
FindCriticalPaths ==
    /\ pc = "parsed"
    /\ \E order \in SortOrders(Collected, 1..Len(Collected)) :
       \E k \in TopKs :
          /\ topK' = k
          /\ criticalPaths' = findCriticalPaths(Collected, k, order, nodes)
    /\ pc' = "ranked"
    /\ UNCHANGED <<mode, files, lines, lineIndex, paths, nodes, nodeCache,
                   allPaths>>

\* analyzer.analyzePath(path) of the tests
AnalyzePath ==
    /\ mode = "test" /\ pc = "parsed"
    /\ \E i \in 1..Len(paths) :
          criticalPaths' = <<analyzePath(paths[i], nodes)>>
    /\ pc' = "analyzed"
    /\ UNCHANGED <<mode, topK, files, lines, lineIndex, paths, nodes,
                   nodeCache, allPaths>>

Next ==
    \/ OpenFile
    \/ OpenFails
    \/ ScanPath
    \/ ScanPathFails
    \/ ScanOther
    \/ ParseReturns
    \/ DirectoryDone
    \/ FindCriticalPaths
    \/ AnalyzePath

Spec == Init /\ [][Next]_vars

\* parseFile runs in one thread and nothing stops it: an iteration of its
\* loop that can be taken is taken.  For the iterations at a "Path " line
\* weak fairness is written out: one of the two is enabled exactly when
\* AtHeader holds, parsePath either throwing or returning
FairSpec ==
    /\ Spec
    /\ WF_vars(ScanOther \/ ParseReturns)
    /\ ([]<>(~AtHeader) \/ []<><<ScanPath \/ ScanPathFails>>_vars)

---------------------------------------------------------------------------
(* What the claims speak of: the formats of the report, read token by token *)

\* the tokens of a line: its runs of non-spaces
RECURSIVE TokensFrom(_, _)

\* the token of s from b up to e, and those after it
TokenTo(s, b, e) == <<SubSeq(s, b, e - 1)>> \o TokensFrom(s, e)

\* the tokens of s from b on, b not being a space
TokensAt(s, b) ==
    IF b > Len(s) THEN <<>> ELSE TokenTo(s, b, RunEnd(s, b, Spaces, FALSE))

\* the tokens of s from i on: its runs of characters that are not spaces
TokensFrom(s, i) == TokensAt(s, RunEnd(s, i, Spaces, TRUE))

Tokens(s) == TokensFrom(s, 1)

AllDigits(s) == \A k \in 1..Len(s) : s[k] \in Digits

\* a non-negative decimal: digits, or digits "." digits with a digit in it
IsDecimal(tok) ==
    \/ tok # <<>> /\ AllDigits(tok)
    \/ \E d \in 1..Len(tok) :
          /\ tok[d] = "."
          /\ AllDigits(SubSeq(tok, 1, d - 1))
          /\ AllDigits(SubSeq(tok, d + 1, Len(tok)))
          /\ Len(tok) > 1

\* the value of a decimal of at most one fractional digit, in tenths
DecimalTenths(tok) ==
    IF AllDigits(tok) THEN 10 * DigitsVal(tok)
    ELSE LET d == CHOOSE d \in 1..Len(tok) : tok[d] = "."
         IN  10 * DigitsVal(SubSeq(tok, 1, d - 1))
             + DigitsVal(SubSeq(tok, d + 1, Len(tok)))

\* Path <id> <endpoint> <startpoint> <totalDelay>
HeaderTokens(toks) ==
    /\ Len(toks) = 5
    /\ toks[1] = sPath
    /\ IsDecimal(toks[5])

IsHeaderLine(line) == Find(line, sPathSp) = 0 /\ HeaderTokens(Tokens(line))

\* <id>.<n> <to> <from> <delay>
StageTokens(toks, id) ==
    /\ Len(toks) = 4
    /\ Len(toks[1]) > Len(id) + 1
    /\ SubSeq(toks[1], 1, Len(id) + 1) = id \o sDot
    /\ AllDigits(SubSeq(toks[1], Len(id) + 2, Len(toks[1])))
    /\ IsDecimal(toks[4])

IsStageLine(line, id) == StageTokens(Tokens(line), id)

\* the indices (from 0), in order, of the header lines among the first n
\* lines of ls
RECURSIVE HeaderIndices(_, _)
HeaderIndices(ls, n) ==
    IF n = 0 THEN <<>>
    ELSE HeaderIndices(ls, n - 1)
         \o (IF IsHeaderLine(ls[n]) THEN <<n - 1>> ELSE <<>>)

\* the index of the first line after line h of ls that ends a block: an
\* empty line, a "Path " line, a line with "End of" in it, or the end
RECURSIVE BlockEnd(_, _)
BlockEnd(ls, h) ==
    IF h + 1 >= Len(ls) THEN Len(ls)
    ELSE IF \/ ls[h + 2] = <<>>
            \/ Find(ls[h + 2], sPathSp) = 0
            \/ Contains(ls[h + 2], sEndOf)
    THEN h + 1
    ELSE BlockEnd(ls, h + 1)

\* the paths and edges the parser has built, in this file and before
ParsedPaths == {paths[k] : k \in 1..Len(paths)}
                  \cup {allPaths[k] : k \in 1..Len(allPaths)}

EdgesOf(path) == {path.edges[k] : k \in 1..Len(path.edges)}

ParsedEdges == UNION {EdgesOf(p) : p \in ParsedPaths}

Parsing == mode # "test"

---------------------------------------------------------------------------
(* The claims *)

\* the paths ps come, one for one and in order, from the lines at indices
ComeFrom(ps, indices) ==
    /\ Len(ps) = Len(indices)
    /\ \A k \in 1..Len(ps) : ps[k].atLine = indices[k]

\* the paths collected so far are, one for one and in order, the header
\* lines among the lines the scan has passed
C1_Collected == Parsing => ComeFrom(paths, HeaderIndices(lines, lineIndex))

\* at a "Path " line that is not a header line the scan moves to the next
\* line and collects nothing
C1_Resumes ==
    (AtHeader /\ ~IsHeaderLine(lines[lineIndex + 1]))
        => (lineIndex' = lineIndex + 1 /\ paths' = paths)

\* C1: parsing returns exactly one TimingPath per line that starts with
\* "Path " and has the header format, in the order of those lines; a line
\* that starts with "Path " and has not the format yields no TimingPath,
\* the scan resumes at the line right after it, and every later header
\* line still yields its path.
C1_OnePathPerHeader == []C1_Collected /\ [][C1_Resumes]_vars

\* a report whose second "Path " line is a header line and whose first is
\* not has been scanned, and has yielded the path of the second
C1_Witness ==
    /\ mode = "file" /\ pc = "parsed"
    /\ Len(paths) = 1
    /\ \E i \in 1..Len(lines) :
          /\ Find(lines[i], sPathSp) = 0 /\ ~IsHeaderLine(lines[i])
          /\ paths[1].atLine >= i

\* the fields of path are those of its header line, in the order id,
\* endpoint, startpoint, totalDelay
HeaderFields(path, toks) ==
    /\ path.id = toks[2]
    /\ path.endpoint = toks[3]
    /\ path.startpoint = toks[4]
    /\ path.totalDelay = DecimalTenths(toks[5])

\* the fields of edge are those of its stage line: the destination, then
\* the source, then the delay
StageFields(edge, toks) ==
    /\ nodes[edge.to].name = toks[2]
    /\ nodes[edge.from].name = toks[3]
    /\ edge.delay = DecimalTenths(toks[4])

\* C2: the path of a header line  Path <id> <a> <b> <d>  has id <id>,
\* endpoint <a>, startpoint <b> and totalDelay <d>, and the edge of a stage
\* line  <id>.<n> <x> <y> <d>  taken into the path has to.name <x>,
\* from.name <y> and delay <d>.
C2_FieldOrder ==
    Parsing =>
        \A k \in 1..Len(paths) :
            /\ IsHeaderLine(lines[paths[k].atLine + 1])
                  => HeaderFields(paths[k],
                                  Tokens(lines[paths[k].atLine + 1]))
            /\ \A e \in EdgesOf(paths[k]) :
                  IsStageLine(lines[e.atLine + 1], paths[k].id)
                      => StageFields(e, Tokens(lines[e.atLine + 1]))

\* a header line and a stage line of its path have been parsed, and
\* neither names the same thing twice
C2_Witness ==
    /\ mode = "file" /\ pc = "parsed"
    /\ \E k \in 1..Len(paths) :
          /\ IsHeaderLine(lines[paths[k].atLine + 1])
          /\ paths[k].endpoint # paths[k].startpoint
          /\ \E e \in EdgesOf(paths[k]) :
                /\ IsStageLine(lines[e.atLine + 1], paths[k].id)
                /\ e.from # e.to

\* a header row of the reports the parser test writes
IsRowLine(line) ==
    /\ Len(Tokens(line)) = 4
    /\ ~Contains(Tokens(line)[1], sDot)
    /\ IsDecimal(Tokens(line)[4])

\* the positions (from 1), in order, of the header rows among the first n
\* lines of ls
RECURSIVE RowIndices(_, _)
RowIndices(ls, n) ==
    IF n = 0 THEN <<>>
    ELSE RowIndices(ls, n - 1) \o (IF IsRowLine(ls[n]) THEN <<n>> ELSE <<>>)

\* the positions of the stage rows of the header row at position r
StageRowsOf(ls, r) ==
    {i \in (r + 1)..Len(ls) :
        /\ IsStageLine(ls[i], Tokens(ls[r])[1])
        /\ \A j \in (r + 1)..i : ~IsRowLine(ls[j])}

\* the titles, the dashes, then header rows, each followed by its stage rows
IsTestReport(ls) ==
    /\ Len(ls) >= 3
    /\ ls[1] = lTitle
    /\ ls[2] = lDash
    /\ IsRowLine(ls[3])
    /\ \A i \in 4..Len(ls) :
          \/ IsRowLine(ls[i])
          \/ \E r \in 3..(i - 1) : IsRowLine(ls[r]) /\ i \in StageRowsOf(ls, r)

\* C3: of a report in the format the parser test writes, parseFile returns
\* one TimingPath per header row, with the id, endpoint, startpoint and
\* totalDelay of the row and one edge per stage row of the path.
C3_TestReportParsed ==
    (mode = "file" /\ pc = "parsed" /\ IsTestReport(lines)) =>
        /\ Len(paths) = Len(RowIndices(lines, Len(lines)))
        /\ \A k \in 1..Len(paths) :
              LET r == RowIndices(lines, Len(lines))[k]
              IN  /\ paths[k].id = Tokens(lines[r])[1]
                  /\ paths[k].endpoint = Tokens(lines[r])[2]
                  /\ paths[k].startpoint = Tokens(lines[r])[3]
                  /\ paths[k].totalDelay = DecimalTenths(Tokens(lines[r])[4])
                  /\ Len(paths[k].edges) = Cardinality(StageRowsOf(lines, r))

\* C4: in one parser, after any stage lines of any paths and any number of
\* parseFile calls, there is at most one TimingNode per name, the cache
\* maps each name to the node of that name, and two edge endpoints of the
\* same name are the same node.
C4_OneNodePerName ==
    Parsing =>
        /\ \A i, j \in 1..Len(nodes) :
              nodes[i].name = nodes[j].name => i = j
        /\ \A n \in DOMAIN nodeCache :
              /\ nodeCache[n] \in 1..Len(nodes)
              /\ nodes[nodeCache[n]].name = n
        /\ \A e1, e2 \in ParsedEdges :
              \A x \in {e1.from, e1.to}, y \in {e2.from, e2.to} :
                 /\ x \in 1..Len(nodes)
                 /\ y \in 1..Len(nodes)
                 /\ nodes[x].name = nodes[y].name => x = y

\* in the second file of a directory an edge starts at a node that an edge
\* of the first file starts at or ends at
C4_Witness ==
    /\ mode = "dir" /\ pc = "scan"
    /\ \E p \in 1..Len(allPaths), q \in 1..Len(paths) :
          \E e1 \in EdgesOf(allPaths[p]), e2 \in EdgesOf(paths[q]) :
             e2.from \in {e1.from, e1.to}

\* C5: every edge the parser makes has both its nodes, its delay is
\* netDelay + cellDelay, and the delay is all net delay if the type of its
\* source is net and all cell delay otherwise.
C5_DelaySplit ==
    Parsing =>
        \A e \in ParsedEdges :
            /\ e.from # 0 /\ e.to # 0
            /\ e.delay = e.netDelay + e.cellDelay
            /\ IF nodes[e.from].type = "net"
               THEN e.netDelay = e.delay /\ e.cellDelay = 0
               ELSE e.cellDelay = e.delay /\ e.netDelay = 0

\* an edge from a net and an edge from another node, both of a delay
\* that is not 0, have been parsed
C5_Witness ==
    /\ Parsing
    /\ \E e1, e2 \in ParsedEdges :
          /\ nodes[e1.from].type = "net" /\ e1.delay > 0
          /\ nodes[e2.from].type # "net" /\ e2.delay > 0

\* the analyses findCriticalPaths or analyzePath has returned
Analyses == {criticalPaths[k] : k \in 1..Len(criticalPaths)}

\* min(K, n), or 0 when K <= 0
TopCount(K, n) == IF K <= 0 THEN 0 ELSE IF K < n THEN K ELSE n

\* the paths of inPaths at the positions in sel are the largest of inPaths
\* and have, value for value, the total delays of the analyses in out
LargestOf(inPaths, sel, out) ==
    /\ Cardinality(sel) = Len(out)
    /\ \A i \in sel, j \in (1..Len(inPaths)) \ sel :
          inPaths[i].totalDelay >= inPaths[j].totalDelay
    /\ \A i \in 1..Len(out) :
          Cardinality({j \in sel :
              inPaths[j].totalDelay = out[i].path.totalDelay})
          = Cardinality({j \in 1..Len(out) :
              out[j].path.totalDelay = out[i].path.totalDelay})

\* C6: for every list of paths and every K, findCriticalPaths returns
\* min(K, |paths|) analyses, none when K <= 0, no analysis of a smaller
\* totalDelay than a later one, and their totalDelay values are the K
\* largest of the input.
C6_TopK ==
    pc = "ranked" =>
        /\ Len(criticalPaths) = TopCount(topK, Len(Collected))
        /\ \A i, j \in 1..Len(criticalPaths) :
              i < j => criticalPaths[i].path.totalDelay
                          >= criticalPaths[j].path.totalDelay
        /\ \E sel \in SUBSET (1..Len(Collected)) :
              LargestOf(Collected, sel, criticalPaths)

\* fewer paths were asked for than were given, and the paths were given
\* with a smaller total delay before a larger one
C6_Witness ==
    /\ pc = "ranked"
    /\ topK >= 1 /\ topK < Len(Collected)
    /\ \E i, j \in 1..Len(Collected) :
          i < j /\ Collected[i].totalDelay < Collected[j].totalDelay

\* the positions in inPaths of the paths a stable descending sort puts
\* first: position i comes before position j iff its total delay is
\* larger, or the same and i < j
StableRank(inPaths, i) ==
    1 + Cardinality({j \in 1..Len(inPaths) :
            \/ inPaths[j].totalDelay > inPaths[i].totalDelay
            \/ inPaths[j].totalDelay = inPaths[i].totalDelay /\ j < i})

\* C7: in the result of findCriticalPaths paths of equal totalDelay are in
\* their input order, and when the cut at K falls among equal paths the
\* earlier ones of the input are kept: the result is that of a stable sort.
C7_StableOrder ==
    pc = "ranked" =>
        \A r \in 1..Len(criticalPaths) :
            \E i \in 1..Len(Collected) :
                /\ StableRank(Collected, i) = r
                /\ criticalPaths[r].path = Collected[i]

\* C8: the analysis of a path that has an edge has for worstStageDelay the
\* largest delay of the edges and for worstStage the first edge of that
\* delay.
C8_WorstStage ==
    \A a \in Analyses :
        a.path.edges # <<>> =>
            \E m \in 1..Len(a.path.edges) :
                /\ \A j \in 1..Len(a.path.edges) :
                      a.path.edges[j].delay <= a.path.edges[m].delay
                /\ \A j \in 1..(m - 1) :
                      a.path.edges[j].delay < a.path.edges[m].delay
                /\ a.worstStageDelay = a.path.edges[m].delay
                /\ a.worstStage = m

\* no line from the one after the header at h (from 0) to the end of its
\* block is a stage line of the path id
NoStageLines(ls, h, id) ==
    \A j \in (h + 2)..BlockEnd(ls, h) : ~IsStageLine(ls[j], id)

\* C9: the path of a header line with no stage line before the end of its
\* block has no edges, and the analysis of a path without edges has
\* worstStageDelay 0, no worst edge and the insufficient-data suggestion.
C9_NoEdges ==
    /\ Parsing =>
          \A k \in 1..Len(paths) :
             NoStageLines(lines, paths[k].atLine, paths[k].id)
                 => paths[k].edges = <<>>
    /\ \A a \in Analyses :
          a.path.edges = <<>> =>
              /\ a.worstStageDelay = 0
              /\ a.worstStage = 0
              /\ a.optimizationSuggestion =
                    <<"Insufficient path data for optimization suggestions.">>

\* a report with a header line that lines follow but no stage line of its
\* path has been parsed and its path analysed
C9_Witness ==
    /\ mode = "file" /\ pc = "ranked"
    /\ \E a \in Analyses :
          /\ a.path.edges = <<>>
          /\ a.path.atLine + 1 < Len(lines)
          /\ NoStageLines(lines, a.path.atLine, a.path.id)

\* the worst edge of an analysis exists and has both its nodes
HasWorstEdge(a) ==
    /\ a.worstStage # 0
    /\ a.path.edges[a.worstStage].from # 0
    /\ a.path.edges[a.worstStage].to # 0

\* the suggestion s is a pipeline insertion between the nodes of edge e
IsPipeline(s, e) ==
    s = <<"insert pipeline register between ", nodes[e.from].name, " -> ",
          nodes[e.to].name>>

\* the suggestion s is a cell replacement
IsCellReplacement(s) ==
    s[1] \in {"replace ", "use faster cell library for critical path cells"}

\* the suggestion s is a fan-out balancing after the source of edge e
IsFanout(s, e) == s = <<"balance fan-out after ", nodes[e.from].name>>

\* the suggestion s for the worst edge e of delay d follows the decision
Decided(s, e, d) ==
    IF e.netDelay > e.cellDelay /\ 2 * e.netDelay > d
    THEN IsPipeline(s, e)
    ELSE IF e.cellDelay > e.netDelay /\ 2 * e.cellDelay > d
    THEN IsCellReplacement(s)
    ELSE IsFanout(s, e)

\* C10: for a path whose worst edge exists with both its nodes, analyzePath
\* suggests a pipeline insertion naming source and destination if
\* netDelay > cellDelay and netDelay > 0.5 * worstStageDelay, else a cell
\* replacement if cellDelay > netDelay and cellDelay > 0.5 *
\* worstStageDelay, else fan-out balancing naming the source; equal
\* netDelay and cellDelay give fan-out balancing.
C10_Decision ==
    \A a \in Analyses :
        HasWorstEdge(a) =>
            /\ Decided(a.optimizationSuggestion,
                       a.path.edges[a.worstStage], a.worstStageDelay)
            /\ a.path.edges[a.worstStage].netDelay
                  = a.path.edges[a.worstStage].cellDelay
                  => IsFanout(a.optimizationSuggestion,
                              a.path.edges[a.worstStage])

\* analyses exist of a worst edge whose net delay is the larger but only
\* half the stage delay, and of one of equal net and cell delay
C10_Witness ==
    /\ \E a \in Analyses :
          /\ HasWorstEdge(a)
          /\ a.path.edges[a.worstStage].netDelay
                > a.path.edges[a.worstStage].cellDelay
          /\ 2 * a.path.edges[a.worstStage].netDelay = a.worstStageDelay
    /\ pc = "analyzed"

\* the worst edge of the analysis a
WorstEdgeOf(a) == a.path.edges[a.worstStage]

\* analyzePath takes the cell-replacement branch for the analysis a
CellBranch(a) ==
    /\ HasWorstEdge(a)
    /\ ~(/\ WorstEdgeOf(a).netDelay > WorstEdgeOf(a).cellDelay
         /\ 2 * WorstEdgeOf(a).netDelay > a.worstStageDelay)
    /\ WorstEdgeOf(a).cellDelay > WorstEdgeOf(a).netDelay
    /\ 2 * WorstEdgeOf(a).cellDelay > a.worstStageDelay

\* the faster variant of the cell name: the first of INV, BUF, NAND or NOR
\* that is in the name decides
FasterVariant(name) ==
    IF Contains(name, <<"I", "N", "V">>) THEN <<name, "_HF">>
    ELSE IF Contains(name, <<"B", "U", "F">>) THEN <<name, "_X4">>
    ELSE IF \/ Contains(name, <<"N", "A", "N", "D">>)
            \/ Contains(name, <<"N", "O", "R">>)
    THEN <<name, "_HS">>
    ELSE <<"a faster variant of ", name>>

\* C11: when the cell-replacement branch is chosen, the suggestion is the
\* faster-cell-library message if the category of the source is net, and
\* else "replace <name> with " followed by the name with the suffix of the
\* first of INV (_HF), BUF (_X4), NAND or NOR (_HS) in the name, or by
\* "a faster variant of <name>" when none is in it.
C11_CellReplacement ==
    \A a \in Analyses :
        CellBranch(a) =>
            a.optimizationSuggestion =
                IF nodes[WorstEdgeOf(a).from].type = "net"
                THEN <<"use faster cell library for critical path cells">>
                ELSE <<"replace ", nodes[WorstEdgeOf(a).from].name, " with ">>
                     \o FasterVariant(nodes[WorstEdgeOf(a).from].name)

\* a worst edge from BUF_INV with more cell delay than net delay has been
\* analysed: the suggestion is BUF_INV_HF
C11_Witness ==
    /\ pc = "analyzed"
    /\ \E a \in Analyses :
          /\ CellBranch(a)
          /\ nodes[WorstEdgeOf(a).from].name = nBUFINV
          /\ WorstEdgeOf(a).netDelay > 0
          /\ a.optimizationSuggestion =
                <<"replace ", nBUFINV, " with ", nBUFINV, "_HF">>

\* the category the claim as first stated gives a new node: one sequence
\* of checks, PI taken on a source only and PO on a destination only
OneSequence(name, role) ==
    IF Contains(name, <<"N", "E", "T">>) THEN "net"
    ELSE IF \/ Contains(name, <<"F", "F">>)
            \/ Contains(name, <<"F", "L", "O", "P">>) THEN "flop"
    ELSE IF role = "from" /\ Contains(name, <<"P", "I">>)
    THEN "primary_input"
    ELSE IF Contains(name, <<"I", "N", "V">>) THEN "inverter"
    ELSE IF Contains(name, <<"B", "U", "F">>) THEN "buffer"
    ELSE IF Contains(name, <<"N", "A", "N", "D">>) THEN "nand"
    ELSE IF Contains(name, <<"N", "O", "R">>) THEN "nor"
    ELSE IF role = "to" /\ Contains(name, <<"P", "O">>)
    THEN "primary_output"
    ELSE "unknown"

\* the category of a new node by the role it is created in: NET, FF or
\* FLOP, PI for a source; NET, INV, BUF, NAND, NOR, FF or FLOP, PO for a
\* destination
TwoSequences(name, role) ==
    IF Contains(name, <<"N", "E", "T">>) THEN "net"
    ELSE IF role = "from"
    THEN (IF \/ Contains(name, <<"F", "F">>)
             \/ Contains(name, <<"F", "L", "O", "P">>) THEN "flop"
          ELSE IF Contains(name, <<"P", "I">>) THEN "primary_input"
          ELSE "unknown")
    ELSE (IF Contains(name, <<"I", "N", "V">>) THEN "inverter"
          ELSE IF Contains(name, <<"B", "U", "F">>) THEN "buffer"
          ELSE IF Contains(name, <<"N", "A", "N", "D">>) THEN "nand"
          ELSE IF Contains(name, <<"N", "O", "R">>) THEN "nor"
          ELSE IF \/ Contains(name, <<"F", "F">>)
                  \/ Contains(name, <<"F", "L", "O", "P">>) THEN "flop"
          ELSE IF Contains(name, <<"P", "O">>) THEN "primary_output"
          ELSE "unknown")

\* C12, as stated: the category of a node is the first match of NET, FF or
\* FLOP, PI (for a source), INV, BUF, NAND, NOR, PO (for a destination) on
\* its name, else unknown; so a name with FF and INV in it is flop.
C12_OneSequence ==
    Parsing =>
        \A i \in 1..Len(nodes) :
            nodes[i].type = OneSequence(nodes[i].name, nodes[i].role)

\* C12, amended: the category of a node created as a source is the first
\* match of NET, FF or FLOP, PI on its name, that of a node created as a
\* destination the first match of NET, INV, BUF, NAND, NOR, FF or FLOP, PO,
\* else unknown; a name with NET and FF in it is net either way, one with
\* FF and INV in it is flop as a source and inverter as a destination.
C12_CategoryByRole ==
    Parsing =>
        \A i \in 1..Len(nodes) :
            nodes[i].type = TwoSequences(nodes[i].name, nodes[i].role)

\* FF_INV has been created as a destination and is an inverter, NET_FF as
\* a source and is a net
C12_Witness ==
    /\ Parsing
    /\ \E i, j \in 1..Len(nodes) :
          /\ nodes[i].name = nFFINV /\ nodes[i].role = "to"
          /\ nodes[i].type = "inverter"
          /\ nodes[j].name = nNETFF /\ nodes[j].role = "from"
          /\ nodes[j].type = "net"

\* the token ends in a dot and digits, after at least one character
EndsInDotDigits(tok) ==
    \E d \in 2..(Len(tok) - 1) :
        tok[d] = "." /\ AllDigits(SubSeq(tok, d + 1, Len(tok)))

\* a well-formed stage line: <stage> <to> <from> <delay>
WellFormedStage(toks) ==
    /\ Len(toks) = 4
    /\ EndsInDotDigits(toks[1])
    /\ IsDecimal(toks[4])

\* the indices (from 0), in order, of the well-formed stage lines with
\* "<id>." in them among the lines of ls at indices lo to hi - 1
RECURSIVE StageIndices(_, _, _, _)
StageIndices(ls, id, lo, hi) ==
    IF lo >= hi THEN <<>>
    ELSE (IF /\ Contains(ls[lo + 1], id \o <<".">>)
             /\ WellFormedStage(Tokens(ls[lo + 1]))
          THEN <<lo>> ELSE <<>>)
         \o StageIndices(ls, id, lo + 1, hi)

\* C13: the edges of a parsed path are, in the order of the report, those
\* of the well-formed stage lines with "<id>." in them between its header
\* and the first empty line, "Path " line, line with "End of" in it or the
\* end of the report after it; a line that is not well-formed adds no edge
\* and does not end the block, and no line from the end of the block on
\* adds an edge.
C13_BlockEdges ==
    Parsing =>
        \A k \in 1..Len(paths) :
            ComeFrom(paths[k].edges,
                     StageIndices(lines, paths[k].id, paths[k].atLine + 1,
                                  BlockEnd(lines, paths[k].atLine)))

\* a path has an edge from a stage line that follows, in its block, a line
\* with "<id>." in it that is not a well-formed stage line
C13_Witness ==
    /\ mode = "file" /\ pc = "parsed"
    /\ \E k \in 1..Len(paths) :
          \E e \in EdgesOf(paths[k]) :
             \E j \in (paths[k].atLine + 1)..(e.atLine - 1) :
                /\ Contains(lines[j + 1], paths[k].id \o <<".">>)
                /\ ~WellFormedStage(Tokens(lines[j + 1]))

\* a step of the report scan in which parsePath returns a path
PathReturned == pc = "scan" /\ Len(paths') = Len(paths) + 1

\* the index after the last line parsePath examines in the block of the
\* header at h: after the line that ends the block, or after the last line
\* of the report
AfterLastExamined(ls, h) ==
    IF BlockEnd(ls, h) < Len(ls) THEN BlockEnd(ls, h) + 1 ELSE Len(ls)

\* C14, as stated: parsePath returns the index right after the last line
\* it examined, be that line a stage line or the line that ended the block.
C14_AfterLastExamined ==
    [][PathReturned => lineIndex' = AfterLastExamined(lines, lineIndex)]_vars

\* C14, amended: parsePath returns the index of the line that ended the
\* block, which the report scan examines next, or, when no line ended the
\* block, the index after the last line of the report.
C14_AtBlockEnd ==
    [][PathReturned => lineIndex' = BlockEnd(lines, lineIndex)]_vars

\* parsePath has returned the index of a line that ended a block after a
\* stage line
C14_Witness ==
    /\ pc = "scan" /\ paths # <<>>
    /\ paths[Len(paths)].edges # <<>>
    /\ lineIndex < Len(lines)
    /\ lineIndex = BlockEnd(lines, paths[Len(paths)].atLine)

\* the worst edge of the analysis a exists and lacks one of its nodes
LacksNode(a) ==
    /\ a.worstStage # 0
    /\ WorstEdgeOf(a).from = 0 \/ WorstEdgeOf(a).to = 0

\* the text without names of the suggestion the delays of edge e, of stage
\* delay d, call for
GenericVariant(e, d) ==
    IF e.netDelay > e.cellDelay /\ 2 * e.netDelay > d
    THEN <<"insert pipeline register in the critical path">>
    ELSE IF e.cellDelay > e.netDelay /\ 2 * e.cellDelay > d
    THEN <<"use faster cell library for critical path cells">>
    ELSE <<"balance fan-out in the critical path">>

\* C15, as stated: for a worst edge that lacks its from or its to,
\* analyzePath returns the generic variant of the suggestion its net and
\* cell delays call for.
C15_GenericVariant ==
    \A a \in Analyses :
        LacksNode(a) =>
            a.optimizationSuggestion =
                GenericVariant(WorstEdgeOf(a), a.worstStageDelay)

\* C15, amended: for a worst edge that lacks its from or its to,
\* analyzePath returns, whatever the net and cell delays of the edge, the
\* insufficient-data message, with the delay of the edge as worstStageDelay.
C15_InsufficientData ==
    \A a \in Analyses :
        LacksNode(a) =>
            /\ a.optimizationSuggestion =
                  <<"Insufficient path data for optimization suggestions.">>
            /\ a.worstStageDelay = WorstEdgeOf(a).delay

\* a worst edge without its to, all of whose delay is net delay, has been
\* analysed
C15_Witness ==
    /\ pc = "analyzed"
    /\ \E a \in Analyses :
          /\ LacksNode(a)
          /\ WorstEdgeOf(a).from # 0 /\ WorstEdgeOf(a).to = 0
          /\ WorstEdgeOf(a).netDelay = a.worstStageDelay
          /\ WorstEdgeOf(a).cellDelay = 0

\* an iteration of the report scan moves on: past the header of the path
\* it returns, or by one line when it returns none
ScanAdvances ==
    (pc = "scan" /\ pc' = "scan") =>
        /\ lineIndex' > lineIndex
        /\ lineIndex' <= Len(lines)
        /\ lines' = lines
        /\ paths' = paths => lineIndex' = lineIndex + 1

\* no failure to parse a header or a stage line ends the run: the run
\* ends in an error only at the opening of a file
NoParseError == pc' = "error" => pc = "start"

\* C16: parsing ends on every report: every iteration of the scan moves
\* the line index up (past its own index for a header that gives a path,
\* by one for a header that fails and for any other line), and no failure
\* to parse a header or a stage line leaves the parse as an error.
C16_ParseTerminates ==
    /\ [][ScanAdvances /\ NoParseError]_vars
    /\ (pc = "scan") ~> (pc # "scan" /\ pc # "error")

\* a report with a "Path " line that is no header and, in the block of a
\* path, a line with "<id>." in it that is no stage line has been parsed
\* to its end
C16_Witness ==
    /\ mode = "file" /\ pc = "parsed"
    /\ lineIndex = Len(lines)
    /\ \E i \in 1..Len(lines) :
          Find(lines[i], sPathSp) = 0 /\ ~IsHeaderLine(lines[i])
    /\ \E k \in 1..Len(paths) :
          \E j \in (paths[k].atLine + 2)..BlockEnd(lines, paths[k].atLine) :
             /\ Contains(lines[j], paths[k].id \o <<".">>)
             /\ ~WellFormedStage(Tokens(lines[j]))

\* the nodes and the cache entries there are stay as they are
NodesKept ==
    Parsing =>
        /\ Len(nodes') >= Len(nodes)
        /\ \A i \in 1..Len(nodes) : nodes'[i] = nodes[i]
        /\ \A n \in DOMAIN nodeCache :
              n \in DOMAIN nodeCache' /\ nodeCache'[n] = nodeCache[n]

\* the categories a node created as a source and a node created as a
\* destination can have
SourceCategories == {"net", "flop", "primary_input", "unknown"}
DestinationCategories ==
    {"net", "inverter", "buffer", "nand", "nor", "flop", "primary_output",
     "unknown"}

\* a node used in an edge has a category of the role it was created in,
\* whatever its role in the edge
FirstRoleDecides ==
    Parsing =>
        \A e \in ParsedEdges :
            \A i \in {e.from, e.to} :
                /\ nodes[i].role = "from"
                      => nodes[i].type \in SourceCategories
                /\ nodes[i].role = "to"
                      => nodes[i].type \in DestinationCategories

\* C17: the category of a node is fixed when the node is first referenced:
\* no later stage line, in the other role, in another path or in a later
\* parseFile of the same parser, changes it, so that it is a category of
\* the role of the first reference (a name with INV in it first seen as a
\* source stays unknown when it is later a destination).
C17_CategoryFixed == []FirstRoleDecides /\ [][NodesKept]_vars

\* a node with INV in its name, created as a source and of category
\* unknown, is the destination of an edge
C17_Witness ==
    /\ Parsing
    /\ \E e \in ParsedEdges :
          /\ nodes[e.to].role = "from"
          /\ Contains(nodes[e.to].name, <<"I", "N", "V">>)
          /\ nodes[e.to].type = "unknown"

\* the suggestion s is the cell replacement that names the source of edge e
IsNamedReplacement(s, e) ==
    s = <<"replace ", nodes[e.from].name, " with ">>
        \o FasterVariant(nodes[e.from].name)

\* the suggestion s is a fan-out balancing or the faster-cell-library
\* message
IsFanoutOrGeneric(s) ==
    s[1] \in {"balance fan-out after ",
              "balance fan-out in the critical path",
              "use faster cell library for critical path cells"}

\* the analysis a of a path of the parser has the insufficient-data
\* message, or its worst edge has both nodes and the suggestion its source
\* category calls for
ParserSuggestion(a) ==
    \/ a.optimizationSuggestion =
          <<"Insufficient path data for optimization suggestions.">>
    \/ /\ HasWorstEdge(a)
       /\ nodes[WorstEdgeOf(a).from].type = "net"
             <=> IsPipeline(a.optimizationSuggestion, WorstEdgeOf(a))
       /\ nodes[WorstEdgeOf(a).from].type # "net"
             <=> IsNamedReplacement(a.optimizationSuggestion, WorstEdgeOf(a))
       /\ \/ IsPipeline(a.optimizationSuggestion, WorstEdgeOf(a))
          \/ IsNamedReplacement(a.optimizationSuggestion, WorstEdgeOf(a))

\* C18: for every path the parser has made, analyzePath returns the
\* insufficient-data message, or a pipeline insertion, exactly when the
\* category of the source of the worst edge is net, or a cell replacement
\* naming the source, exactly when it is not net; it returns neither the
\* fan-out balancing nor the faster-cell-library message.
C18_ParserSuggestions ==
    Parsing =>
        \A a \in Analyses :
            /\ ParserSuggestion(a)
            /\ ~IsFanoutOrGeneric(a.optimizationSuggestion)

\* of the paths parsed, one has a worst edge from a net and a pipeline
\* insertion as its suggestion, another a worst edge from a node that is no
\* net and a cell replacement as its suggestion
C18_Witness ==
    /\ Parsing
    /\ pc = "ranked"
    /\ \E a \in Analyses :
          /\ HasWorstEdge(a)
          /\ nodes[WorstEdgeOf(a).from].type = "net"
          /\ IsPipeline(a.optimizationSuggestion, WorstEdgeOf(a))
    /\ \E a \in Analyses :
          /\ HasWorstEdge(a)
          /\ nodes[WorstEdgeOf(a).from].type # "net"
          /\ IsNamedReplacement(a.optimizationSuggestion, WorstEdgeOf(a))

===========================================================================
